---- MODULE Spec2Model ----
(***************************************************************************)
(* Model of the resilient anonymized fetch layer of TOR_RC:                *)
(*   src/tor/tor_core.py         TorController (control channel, NEWNYM)   *)
(*   src/tor/session_manager.py  TorSessionManager (retry / rotation)      *)
(*                                                                         *)
(* Time is an integer clock `now` (what time.time() returns).  It moves    *)
(* forward between operations (Tick) and inside an operation exactly by    *)
(* the sleeps the operation performs (build wait, backoff).                *)
(*                                                                         *)
(* Every method is an operator from a record of the objects' fields to     *)
(* the record after the call.  A raised exception is the field `exc`; a    *)
(* return value is the field `ret`.  The field `trace` lists the events of *)
(* the call in order and is what the properties are stated on.             *)
(***************************************************************************)
EXTENDS Integers, Sequences, FiniteSets, TLC

VARIABLES
    now,                 \* time.time()
    cfg,                 \* configuration values read at import / construction
    daemon,              \* environment: what the Tor daemon does on connect
    probe,               \* environment: what the exit-address probe returns
    session,             \* TorSessionManager.session is not None
    session_active,      \* TorSessionManager.session_active
    current_ip,          \* TorSessionManager.current_ip
    last_ip_change_time, \* TorSessionManager.last_ip_change_time
    last_ip_check_ts,    \* TorSessionManager._last_ip_check_ts
    controller,          \* TorController.controller: "none", "authed", "unauthed"
    alive,               \* TorController.controller.is_alive()
    last_newnym_ts,      \* TorController.last_newnym_ts
    lastOp,              \* history: the operation that ran last
    pre,                 \* history: the fields at the start of that operation
    inp,                 \* history: the responses offered to that request()
    ret,                 \* history: its return value
    exc,                 \* history: the exception it raised, "none" if it returned
    trace,               \* history: its events, in order
    last_signal_at,      \* history: time of the last NEWNYM signal sent
    nymLog,              \* history: the controller's first newnym() calls
    proc,                \* the request() in progress: statement reached, locals
    threads              \* two threads sharing the manager: the call each has
                         \* in progress, and whether two calls ever overlapped

vars == <<now, cfg, daemon, probe, session, session_active, current_ip,
          last_ip_change_time, last_ip_check_ts, controller, alive,
          last_newnym_ts, lastOp, pre, inp, ret, exc, trace,
          last_signal_at, nymLog, proc, threads>>

-----------------------------------------------------------------------------
(* Bounds *)

MaxCooldown == 2
MaxRenewInterval == 1
MaxRetriesBound == 2
MaxBackoff == 1
MaxTicks == 3
MaxNymLog == 3

MaxIpCheckCooldown == 3

MaxParagraphs == 2
MaxMinWords == 2

\* Python's None for a timestamp that has not been set.
None == 0 - 1

\* time.time() at construction is far beyond every interval the code
\* compares against the initial timestamps 0.0.
Epoch == MaxCooldown + MaxIpCheckCooldown

MaxTime == Epoch + MaxTicks

\* The values the environment variables, constructor arguments and instance
\* attributes may take, in clock units.  The build wait is either absent or
\* as long as the cooldown (the defaults are equal: 10 and 10).
Configs ==
    { c \in [ TOR_NEWNYM_COOLDOWN     : {MaxCooldown},
              TOR_NEWNYM_BUILD_WAIT   : 0..MaxCooldown,
              ip_renew_interval       : {MaxRenewInterval},
              max_retries_per_request : 0..MaxRetriesBound,
              backoff_factor          : {MaxBackoff},
              ip_check_cooldown       : {MaxIpCheckCooldown} ] :
        c.TOR_NEWNYM_BUILD_WAIT \in {0, c.TOR_NEWNYM_COOLDOWN} }

DaemonModes == {"up", "unreachable", "badcreds"}
ProbeResults == {"fail", "ipA", "ipB"}
\* What one self.session.request() call can do, by the branch of the retry
\* loop it leads to: "blocked" is a response with status 403 or 429, "s500"
\* one with any other status raise_for_status() rejects, "s200" one it
\* accepts, "neterr" a transport exception instead of a response.
\* What the sites answer while two threads fetch.
ThreadResponses == {"s200", "blocked"}

Responses == {"s200", "blocked", "s500", "neterr"}

-----------------------------------------------------------------------------
(* The objects' fields as one record *)

Cur ==
    [ now                 |-> now,
      probe               |-> probe,
      session             |-> session,
      session_active      |-> session_active,
      current_ip          |-> current_ip,
      last_ip_change_time |-> last_ip_change_time,
      last_ip_check_ts    |-> last_ip_check_ts,
      controller          |-> controller,
      alive               |-> alive,
      last_newnym_ts      |-> last_newnym_ts,
      last_signal_at      |-> last_signal_at,
      ret                 |-> FALSE,
      exc                 |-> "none",
      trace               |-> << >> ]

Emit(s, e, k) == [s EXCEPT !.trace = Append(@, [e |-> e, t |-> s.now, k |-> k])]

Raise(s, e) == [s EXCEPT !.exc = e]

Return(s, v) == [s EXCEPT !.ret = v]

-----------------------------------------------------------------------------
(* TorController, src/tor/tor_core.py *)

\* connect(): a live handle is reused.  Otherwise Controller.from_port and
\* authenticate run; a SocketError clears the handle and is re-raised, any
\* other exception (authentication failure) leaves the new handle assigned.
Connect(s) ==
    IF s.controller # "none" /\ s.alive
    THEN s
    ELSE CASE daemon = "up" ->
                Emit([s EXCEPT !.controller = "authed", !.alive = TRUE], "connect", 0)
           [] daemon = "unreachable" ->
                Raise(Emit([s EXCEPT !.controller = "none", !.alive = FALSE],
                           "connect_failed", 0), "SocketError")
           [] daemon = "badcreds" ->
                Raise(Emit([s EXCEPT !.controller = "unauthed", !.alive = TRUE],
                           "auth_failed", 0), "AuthenticationFailure")

\* Variant: ensure_connected() does not look at the handle it has.
EnsureConnected_Never(s) == s

\* ensure_connected()
EnsureConnected(s) ==
    IF s.controller = "none" \/ ~s.alive THEN Connect(s) ELSE s
\* Variant: the cooldown compared with > instead of >=.
CanNewnym_Strict(s) == (s.now - s.last_newnym_ts) > cfg.TOR_NEWNYM_COOLDOWN


CanNewnym(s) == (s.now - s.last_newnym_ts) >= cfg.TOR_NEWNYM_COOLDOWN

\* controller.signal(Signal.NEWNYM): the daemon rejects the signal on a
\* handle that never authenticated.  The event carries the time since
\* last_newnym_ts at the moment the signal goes out.
SendSignal(s) ==
    IF s.controller = "authed"
    THEN Emit([s EXCEPT !.last_signal_at = s.now],
              "signal", s.now - s.last_newnym_ts)
    ELSE Raise(Emit(s, "signal_rejected", 0), "ControllerError")

BuildWait(s) ==
    Emit([s EXCEPT !.now = @ + cfg.TOR_NEWNYM_BUILD_WAIT], "build_wait", 0)
\* Variant: last_newnym_ts is recorded before the signal is sent.
Newnym_StampFirst(s, wait_for_build) ==
    LET c == EnsureConnected(Emit(s, "newnym", 0)) IN
    IF c.exc # "none" THEN c
    ELSE IF ~CanNewnym(c) THEN Return(Emit(c, "skipped", 0), FALSE)
    ELSE LET g == SendSignal([c EXCEPT !.last_newnym_ts = c.now]) IN
         IF g.exc # "none" THEN g
         ELSE Return(IF wait_for_build THEN BuildWait(g) ELSE g, TRUE)

\* Variant: last_newnym_ts is not recorded after the signal.
Newnym_NoStamp(s, wait_for_build) ==
    LET c == EnsureConnected(Emit(s, "newnym", 0)) IN
    IF c.exc # "none" THEN c
    ELSE IF ~CanNewnym(c) THEN Return(Emit(c, "skipped", 0), FALSE)
    ELSE LET g == SendSignal(c) IN
         IF g.exc # "none" THEN g
         ELSE Return(IF wait_for_build THEN BuildWait(g) ELSE g, TRUE)


Newnym(s, wait_for_build) ==
    LET c == EnsureConnected(Emit(s, "newnym", 0)) IN
    IF c.exc # "none" THEN c
    ELSE IF ~CanNewnym(c) THEN Return(Emit(c, "skipped", 0), FALSE)
    ELSE LET g == SendSignal(c) IN
         IF g.exc # "none" THEN g
         ELSE LET r == [g EXCEPT !.last_newnym_ts = g.now] IN
              Return(IF wait_for_build THEN BuildWait(r) ELSE r, TRUE)

-----------------------------------------------------------------------------
(* TorSessionManager, src/tor/session_manager.py *)

EnsureSession(s) ==
    IF ~s.session THEN Emit([s EXCEPT !.session = TRUE], "build_client", 0) ELSE s

\* _fetch_exit_ip_through_tor(): one GET through the session; every
\* exception is swallowed and reported as no address.  What the GET answers
\* during a call is the field `probe` of the record.
FetchExitIp(s) == Emit(EnsureSession(s), "probe", 0)

\* Variant: _last_ip_check_ts is recorded only when the probe gave an address.
MaybeUpdateIpCache_StampOnSuccess(s) ==
    IF (s.now - s.last_ip_check_ts) < cfg.ip_check_cooldown
    THEN s
    ELSE LET f == FetchExitIp(s) IN
         IF s.probe = "fail" THEN f
         ELSE IF f.current_ip # s.probe
              THEN [f EXCEPT !.last_ip_check_ts = s.now, !.current_ip = s.probe,
                             !.last_ip_change_time = s.now]
              ELSE [f EXCEPT !.last_ip_check_ts = s.now]

\* _maybe_update_ip_cache(): _last_ip_check_ts is recorded before the probe.
MaybeUpdateIpCache(s) ==
    IF (s.now - s.last_ip_check_ts) < cfg.ip_check_cooldown
    THEN s
    ELSE LET f == FetchExitIp([s EXCEPT !.last_ip_check_ts = s.now]) IN
         IF s.probe = "fail" THEN f
         ELSE IF f.current_ip # s.probe
              THEN [f EXCEPT !.current_ip = s.probe, !.last_ip_change_time = s.now]
              ELSE f

\* log_ip_status(): besides the cache update it only reads fields and asks
\* the daemon for two configuration values, swallowing every exception.
LogIpStatus(s) == MaybeUpdateIpCache(s)

\* Variant: renew_ip() leaves last_ip_change_time to the probe.
RenewIp_NoChangeTime(s, initial) ==
    LET n == Newnym(EnsureSession(Emit(s, "renew_ip", 0)), TRUE) IN
    IF n.exc # "none" THEN n
    ELSE IF ~n.ret /\ ~initial
         THEN Return(LogIpStatus(n), FALSE)
         ELSE Return(LogIpStatus(n), TRUE)

\* renew_ip()
RenewIp(s, initial) ==
    LET n == Newnym(EnsureSession(Emit(s, "renew_ip", 0)), TRUE) IN
    IF n.exc # "none" THEN n
    ELSE IF ~n.ret /\ ~initial
         THEN Return(LogIpStatus(n), FALSE)
         ELSE Return(LogIpStatus([n EXCEPT !.last_ip_change_time = n.now]), TRUE)
\* Variant: the renew interval compared with >= instead of >.
MaybeRotateByTime_AtInterval(s) ==
    IF /\ s.session_active
       /\ s.last_ip_change_time # None
       /\ (s.now - s.last_ip_change_time) >= cfg.ip_renew_interval
    THEN LET r == RenewIp(LogIpStatus(Emit(s, "time_rotate", 0)), FALSE) IN
         IF r.exc # "none" THEN r ELSE LogIpStatus(r)
    ELSE s


MaybeRotateByTime(s) ==
    IF /\ s.session_active
       /\ s.last_ip_change_time # None
       /\ (s.now - s.last_ip_change_time) > cfg.ip_renew_interval
    THEN LET r == RenewIp(LogIpStatus(Emit(s, "time_rotate", 0)), FALSE) IN
         IF r.exc # "none" THEN r ELSE LogIpStatus(r)
    ELSE s
\* Variant: the except clause does not clear session_active.
StartFailed_KeepsActive(s) ==
    Return([Emit(s, "start_failed", 0) EXCEPT !.exc = "none"], FALSE)

\* The except clause of start_session().
StartFailed(s) ==
    Return([Emit(s, "start_failed", 0) EXCEPT !.session_active = FALSE, !.exc = "none"],
           FALSE)
\* Variant: start_session() without the initial renew_ip().
StartSession_NoRotation(s) ==
    LET c == EnsureConnected(Emit(s, "start", 0)) IN
    IF c.exc # "none" THEN StartFailed(c)
    ELSE Return(LogIpStatus([EnsureSession(c) EXCEPT !.session_active = TRUE]), TRUE)


StartSession(s) ==
    LET c == EnsureConnected(Emit(s, "start", 0)) IN
    IF c.exc # "none" THEN StartFailed(c)
    ELSE LET r == RenewIp(EnsureSession(c), TRUE) IN
         IF r.exc # "none" THEN StartFailed(r)
         ELSE Return(LogIpStatus([r EXCEPT !.session_active = TRUE]), TRUE)

\* Variant: the session is started again on every request.
EnsureStarted_Always(s) == StartSession(s)

\* _ensure_started()
EnsureStarted(s) ==
    IF ~s.session_active THEN StartSession(s) ELSE s

\* Variant: every backoff sleep lasts backoff_factor.
SleepBackoff_Constant(s, attempt) ==
    Emit([s EXCEPT !.now = @ + cfg.backoff_factor], "backoff", attempt)

\* _sleep_backoff(): the event is recorded when the sleep is over.
SleepBackoff(s, attempt) ==
    Emit([s EXCEPT !.now = @ + cfg.backoff_factor * attempt], "backoff", attempt)


RECURSIVE Attempt(_, _, _), OnRequestException(_, _, _, _)

\* Variant: the except clause does not rotate on the last attempt.
OnRequestException_NoFinalRotation(s, resps, attempt, e) ==
    IF attempt = cfg.max_retries_per_request
    THEN Raise(LogIpStatus(Emit(s, "except", attempt)), e)
    ELSE LET r == RenewIp(LogIpStatus(Emit(s, "except", attempt)), FALSE) IN
         IF r.exc # "none" THEN r
         ELSE Attempt(SleepBackoff(LogIpStatus(r), attempt), resps, attempt + 1)

\* The except clause of the retry loop (lines 254-269): rotate, then
\* re-raise on the last attempt or sleep and go round again.
OnRequestException(s, resps, attempt, e) ==
    LET r == RenewIp(LogIpStatus(Emit(s, "except", attempt)), FALSE) IN
    IF r.exc # "none" THEN r
    ELSE LET l == LogIpStatus(r) IN
         IF attempt = cfg.max_retries_per_request
         THEN Raise(l, e)
         ELSE Attempt(SleepBackoff(l, attempt), resps, attempt + 1)

\* One iteration of the retry loop (lines 231-252), and the statement
\* after the loop (line 271) once the range is used up.
Attempt(s, resps, attempt) ==
    IF attempt > cfg.max_retries_per_request
    THEN Raise(Emit(s, "exhausted", 0), "RuntimeError")
    ELSE IF ~s.session
    THEN Raise(Emit(s, "no_client", attempt), "AttributeError")
    ELSE LET a == Emit(Emit(s, "attempt", attempt), resps[attempt], attempt) IN
         CASE resps[attempt] = "neterr" ->
                OnRequestException(a, resps, attempt, "ConnectionError")
           [] resps[attempt] = "blocked" ->
                LET r == RenewIp(LogIpStatus(a), FALSE) IN
                IF r.exc # "none" THEN r
                ELSE LET l == LogIpStatus(r) IN
                     IF attempt = cfg.max_retries_per_request
                     THEN OnRequestException(l, resps, attempt, "HTTPError")
                     ELSE Attempt(SleepBackoff(l, attempt), resps, attempt + 1)
           [] resps[attempt] = "s500" ->
                OnRequestException(a, resps, attempt, "HTTPError")
           [] OTHER ->
                Return(Emit(a, "response", attempt), TRUE)

Request(s, resps) ==
    LET r == MaybeRotateByTime(EnsureStarted(Emit(s, "request", 0))) IN
    IF r.exc # "none" THEN r
    ELSE Attempt(LogIpStatus(r), resps, 1)
(* request() as a process.  Each step is one blocking call (an HTTP call,  *)
(* a probe, a sleep) with the statements around it, and newnym() is four:   *)
(* the cooldown check, the signal, the stamp and the build wait.  p.pc is    *)
(* the statement the call has reached, p.attempt the loop variable,         *)
(* p.initial and p.back the argument and the return point of the            *)
(* renew_ip() in progress, p.e the exception caught.                        *)

ProcIdle ==
    [pc |-> "idle", attempt |-> 0, initial |-> FALSE, back |-> "none", e |-> "none"]

\* Two threads before either calls anything.
ThreadsIdle ==
    [call |-> [th \in {1, 2} |->
                 [op |-> "idle", proc |-> ProcIdle, ret |-> FALSE, exc |-> "none"]],
     overlapped |-> FALSE]

\* A call that has begun and not yet returned or raised.
InProgress == {"requesting", "closing"}

At(s, p, label) == [s |-> s, p |-> [p EXCEPT !.pc = label]]

\* Entering renew_ip(initial), to come back at label back.
CallRenew(s, p, initial, back) ==
    [s |-> s, p |-> [p EXCEPT !.pc = "renew", !.initial = initial, !.back = back]]

\* An exception leaves request().
Leave(s, p) == At(s, p, "done")
\* An exception of newnym() leaves renew_ip(): start_session() catches it,
\* request() does not.
RotationRaised(s, p) ==
    IF p.initial THEN At(StartFailed(s), p, "rotate_by_time") ELSE Leave(s, p)

\* Variant: last_newnym_ts is not recorded after the signal.
StampNewnym_Skipped(s) == s

\* newnym() line 68
StampNewnym(s) == [s EXCEPT !.last_newnym_ts = s.now]

\* Variant: renew_ip() discards the client before it returns.
RenewDone_DropsClient(s, initial) ==
    IF ~s.ret /\ ~initial
    THEN Return([LogIpStatus(s) EXCEPT !.session = FALSE], FALSE)
    ELSE Return([LogIpStatus([s EXCEPT !.last_ip_change_time = s.now])
                    EXCEPT !.session = FALSE], TRUE)

\* renew_ip() lines 203-215, once newnym() has returned s.ret.
RenewDone(s, initial) ==
    IF ~s.ret /\ ~initial
    THEN Return(LogIpStatus(s), FALSE)
    ELSE Return(LogIpStatus([s EXCEPT !.last_ip_change_time = s.now]), TRUE)

\* Variant: the last attempt is not recognised.
LastAttempt_Never(attempt) == FALSE


\* The tests at lines 245 and 266.
LastAttempt(attempt) == attempt = cfg.max_retries_per_request

Step(s, p, resps) ==
    CASE p.pc = "ensure_started" ->
            \* lines 59-60, start_session() lines 178-179
            IF s.session_active THEN At(s, p, "rotate_by_time")
            ELSE LET c == EnsureConnected(Emit(s, "start", 0)) IN
                 IF c.exc # "none" THEN At(StartFailed(c), p, "rotate_by_time")
                 ELSE CallRenew(EnsureSession(c), p, TRUE, "start_active")
      [] p.pc = "renew" ->
            \* renew_ip() lines 199-202, newnym() lines 62-65
            LET c == EnsureConnected(
                         Emit(EnsureSession(Emit(s, "renew_ip", 0)), "newnym", 0)) IN
            IF c.exc # "none" THEN RotationRaised(c, p)
            ELSE IF ~CanNewnym(c)
                 THEN At(Return(Emit(c, "skipped", 0), FALSE), p, "renew_log")
                 ELSE At(c, p, "signal")
      [] p.pc = "signal" ->
            \* newnym() line 67
            LET g == SendSignal(s) IN
            IF g.exc # "none" THEN RotationRaised(g, p) ELSE At(g, p, "stamp")
      [] p.pc = "stamp" ->
            \* newnym() line 68
            At(StampNewnym(s), p, "build_wait")
      [] p.pc = "build_wait" ->
            \* newnym() lines 71-73
            At(Return(BuildWait(s), TRUE), p, "renew_log")
      [] p.pc = "renew_log" ->
            \* renew_ip() lines 203-215
            At(RenewDone(s, p.initial), p, p.back)
      [] p.pc = "start_active" ->
            \* start_session() lines 181-185
            At(Return(LogIpStatus([s EXCEPT !.session_active = TRUE]), TRUE),
               p, "rotate_by_time")
      [] p.pc = "rotate_by_time" ->
            \* lines 164-170
            IF /\ s.session_active
               /\ s.last_ip_change_time # None
               /\ (s.now - s.last_ip_change_time) > cfg.ip_renew_interval
            THEN CallRenew(LogIpStatus(Emit(s, "time_rotate", 0)), p, FALSE, "rotated")
            ELSE At(s, p, "before_request")
      [] p.pc = "rotated" ->
            \* line 172
            At(LogIpStatus(s), p, "before_request")
      [] p.pc = "before_request" ->
            \* line 229
            At(LogIpStatus(s), [p EXCEPT !.attempt = 1], "loop")
      [] p.pc = "loop" ->
            \* lines 231-241, 251-252, 271
            IF p.attempt > cfg.max_retries_per_request
            THEN Leave(Raise(Emit(s, "exhausted", 0), "RuntimeError"), p)
            ELSE IF ~s.session
            THEN Leave(Raise(Emit(s, "no_client", p.attempt), "AttributeError"), p)
            ELSE LET a == Emit(Emit(s, "attempt", p.attempt),
                               resps[p.attempt], p.attempt) IN
                 CASE resps[p.attempt] = "neterr" ->
                        At(a, [p EXCEPT !.e = "ConnectionError"], "except")
                   [] resps[p.attempt] = "blocked" ->
                        CallRenew(LogIpStatus(a), p, FALSE, "status_rotated")
                   [] resps[p.attempt] = "s500" ->
                        At(a, [p EXCEPT !.e = "HTTPError"], "except")
                   [] OTHER ->
                        Leave(Return(Emit(a, "response", p.attempt), TRUE), p)
      [] p.pc = "status_rotated" ->
            \* lines 243-249
            IF LastAttempt(p.attempt)
            THEN At(LogIpStatus(s), [p EXCEPT !.e = "HTTPError"], "except")
            ELSE At(LogIpStatus(s), p, "sleep")
      [] p.pc = "except" ->
            \* lines 254-262
            CallRenew(LogIpStatus(Emit(s, "except", p.attempt)), p, FALSE,
                      "except_rotated")
      [] p.pc = "except_rotated" ->
            \* lines 264-267
            IF LastAttempt(p.attempt)
            THEN Leave(Raise(LogIpStatus(s), p.e), p)
            ELSE At(LogIpStatus(s), p, "sleep")
      [] p.pc = "sleep" ->
            \* lines 248-249, 269
            At(SleepBackoff(s, p.attempt), [p EXCEPT !.attempt = @ + 1], "loop")

\* Variant: close() does not clear session_active.
Close_KeepsActive(s) ==
    LET a == IF s.session
             THEN Emit([s EXCEPT !.session = FALSE], "close_client", 0)
             ELSE s
    IN  IF a.controller # "none"
        THEN Emit([a EXCEPT !.controller = "none", !.alive = FALSE], "close_control", 0)
        ELSE a

\* Variant: close() leaves the control handle open.
Close_KeepsControl(s) ==
    LET a == IF s.session
             THEN Emit([s EXCEPT !.session = FALSE], "close_client", 0)
             ELSE s
    IN  [a EXCEPT !.session_active = FALSE]


Close(s) ==
    LET a == IF s.session
             THEN Emit([s EXCEPT !.session = FALSE], "close_client", 0)
             ELSE s
        b == IF a.controller # "none"
             THEN Emit([a EXCEPT !.controller = "none", !.alive = FALSE], "close_control", 0)
             ELSE a
    IN  [b EXCEPT !.session_active = FALSE]

-----------------------------------------------------------------------------
(* PRNewswireScraper, src/news_scrapers/pr_news_wire.py *)

\* min_words_requests as the constructor defaults it.
DefaultMinWords == 80

\* extract_pr_newswire_content() drops a paragraph shorter than this.
MinParagraphChars == 40

\* DEFAULT_MAX_RETRIES as the environment defaults it.
DefaultMaxRetries == 3

\* The paragraphs a page is made of: the text, the words text.split()
\* counts in it, and len(text).
Paragraphs ==
    { [text |-> "lead",   words |-> DefaultMinWords - 1, chars |-> 10 * MinParagraphChars],
      [text |-> "full",   words |-> DefaultMinWords + MinParagraphChars,
                          chars |-> 20 * MinParagraphChars],
      [text |-> "tail",   words |-> 1, chars |-> MinParagraphChars],
      [text |-> "aside",  words |-> 1, chars |-> MinParagraphChars + 1],
      [text |-> "short",  words |-> 2, chars |-> MinParagraphChars - 1],
      [text |-> "SOURCE", words |-> 2, chars |-> 2 * MinParagraphChars] }

\* A page is the sequence of the paragraphs the selectors find in it; the
\* empty sequence is the empty string.
Html == UNION { [1..n -> Paragraphs] : n \in 0..MaxParagraphs }

\* The filters of lines 48-62, but for the duplicates.
KeptParagraph(par) ==
    /\ par.text \notin {"SOURCE", "Contact", "View original", "View source"}
    /\ par.chars >= MinParagraphChars

RECURSIVE ExtractFrom(_, _)
ExtractFrom(html, seen) ==
    IF html = << >> THEN << >>
    ELSE LET par == Head(html) IN
         IF ~KeptParagraph(par) \/ par.text \in seen
         THEN ExtractFrom(Tail(html), seen)
         ELSE << par >> \o ExtractFrom(Tail(html), seen \cup {par.text})

\* extract_pr_newswire_content(): the paragraphs kept, each once, in order.
\* The empty sequence is the empty content.
ExtractContent(html) == ExtractFrom(html, {})

\* len(content.split())
RECURSIVE WordCount(_)
WordCount(content) ==
    IF content = << >> THEN 0 ELSE Head(content).words + WordCount(Tail(content))

\* What request_func raises in the model; each is a subclass of Exception.
ExceptionClasses ==
    {"SocketError", "AuthenticationFailure", "ControllerError",
     "ConnectionError", "HTTPError", "RuntimeError", "AttributeError"}
\* Variant: the clause catches requests' exceptions only.
CaughtByFetch_RequestsOnly(e) == e \in {"ConnectionError", "HTTPError"}


\* except Exception (line 141)
CaughtByFetch(e) == e \in ExceptionClasses

\* fetch_html_with_requests() once request_func has returned or raised: r is
\* the record after that call, body the response it returned.
FetchHtmlWithRequests(r, body) ==
    IF r.exc # "none"
    THEN IF CaughtByFetch(r.exc)
         THEN Return(Emit([r EXCEPT !.exc = "none"], "static_failed", r.exc), << >>)
         ELSE r
    ELSE IF body.status_code = 200 /\ body.text # << >>
         THEN Return(Emit(r, "static_fetched", 0), body.text)
         ELSE Return(Emit(r, "static_fetched", 0), << >>)

\* Variant: a failure of the browser is an exception of the call.
GetPageSourceWithPlaywright_Raises(s, render) ==
    IF render.ok
    THEN Return(Emit(s, "rendered_fetch", 0), render.html)
    ELSE Raise(Return(Emit(s, "rendered_fetch", 0), << >>), "PlaywrightError")


\* Variant: the browser is given a fresh identity before it loads the page.
GetPageSourceWithPlaywright_Rotates(s, render) ==
    LET n == RenewIp([s EXCEPT !.ret = FALSE], FALSE) IN
    Return(Emit([n EXCEPT !.exc = "none"], "rendered_fetch", 0),
           IF render.ok THEN render.html ELSE << >>)

\* get_page_source_with_playwright(): the page, or "" on any exception.
GetPageSourceWithPlaywright(s, render) ==
    Return(Emit(s, "rendered_fetch", 0), IF render.ok THEN render.html ELSE << >>)
\* Variant: the threshold compared with > instead of >=.
Sufficient_Strict(content, min_words) == WordCount(content) > min_words


\* line 157
Sufficient(content, min_words) == WordCount(content) >= min_words
\* Variant: the rendered content wins a tie.
RenderedWins_OnTie(content_pw, content_req) ==
    WordCount(content_pw) >= WordCount(content_req)


\* line 172
RenderedWins(content_pw, content_req) ==
    WordCount(content_pw) > WordCount(content_req)
\* Variant: after the fallback the rendered content is returned whatever it is.
Fallback_AlwaysRendered(f, content_req, render) ==
    LET g == GetPageSourceWithPlaywright(f, render) IN
    Return(Emit(g, "return_rendered", 0),
           IF g.ret # << >> THEN ExtractContent(g.ret) ELSE << >>)


\* scrape_article() lines 161-174
Fallback(f, content_req, render) ==
    LET g == GetPageSourceWithPlaywright(f, render)
        content_pw == IF g.ret # << >> THEN ExtractContent(g.ret) ELSE << >>
    IN  IF RenderedWins(content_pw, content_req)
        THEN Return(Emit(g, "return_rendered", 0), content_pw)
        ELSE Return(Emit(g, "return_static", 0), content_req)

\* scrape_article() of a scraper built with min_words_requests = min_words.
ScrapeArticle(r, body, render, min_words) ==
    LET f == FetchHtmlWithRequests(r, body) IN
    IF f.exc # "none" THEN f
    ELSE LET content_req == IF f.ret # << >> THEN ExtractContent(f.ret) ELSE << >> IN
         IF Sufficient(content_req, min_words)
         THEN Return(Emit(f, "return_static", 0), content_req)
         ELSE Fallback(f, content_req, render)

-----------------------------------------------------------------------------
(* The per-site scrapers, src/news_scrapers/zee_news.py, the_hindu.py,     *)
(* free_press_journal.py and business_standerd.py.  The four differ in the *)
(* selectors of _extract_from_html() and in how the browser is set up; the *)
(* virtual display business_standerd.py starts and stops around the        *)
(* browser is taken as part of the browser call.                           *)

\* The keys the registry of select_news_scraper.py gives these scrapers.
Sites == {"ZEE_NEWS", "THE_HINDU", "FREE_PRESS_JOURNAL", "BUSINESS_STANDARD"}

MaxSiteParagraphs == 2

\* A page as the selectors see it: its h1 (none, one without the class the
\* site looks for, one with it), whether the h1 has text, whether the
\* site's article container is there, and the number of paragraphs with
\* text left in the container once the unwanted blocks are removed.
SitePages ==
    [ h1 : {"absent", "plain", "classed"},
      h1_text : BOOLEAN,
      body : BOOLEAN,
      paras : 0..MaxSiteParagraphs ]

\* None
NoArticle == [method |-> "none", title |-> FALSE, content |-> 0]

\* The title: the_hindu.py takes h1.title only, zee_news.py any h1, the
\* other two the classed h1 and failing that any h1.
SiteTitle(site, page) ==
    /\ IF site = "THE_HINDU" THEN page.h1 = "classed" ELSE page.h1 # "absent"
    /\ page.h1_text

\* The content: the paragraphs joined, None when there is none.
SiteContent(page) == IF page.body THEN page.paras ELSE 0

\* _extract_from_html(): a result only with both a title and content.
ExtractFromHtml(site, page) ==
    IF SiteTitle(site, page) /\ SiteContent(page) > 0
    THEN [method |-> "parsed", title |-> TRUE, content |-> SiteContent(page)]
    ELSE NoArticle

\* scrape_with_requests_async(): an exception of the GET or of
\* raise_for_status() is caught and gives None.
ScrapeWithRequestsAsync(s, site, static) ==
    LET b == Emit(s, "static_begin", 0) IN
    IF static.status # "ok"
    THEN Return(Emit(b, "static_end", 0), NoArticle)
    ELSE LET parsed == ExtractFromHtml(site, static.page) IN
         Return(Emit(b, "static_end", 0),
                IF parsed # NoArticle THEN [parsed EXCEPT !.method = "httpx"]
                ELSE NoArticle)

\* scrape_with_playwright_async(): any exception of the browser is caught
\* and gives None.
ScrapeWithPlaywrightAsync(s, site, render) ==
    LET b == Emit(s, "rendered_begin", 0) IN
    IF ~render.ok
    THEN Return(Emit(b, "rendered_end", 0), NoArticle)
    ELSE LET parsed == ExtractFromHtml(site, render.page) IN
         Return(Emit(b, "rendered_end", 0),
                IF parsed # NoArticle THEN [parsed EXCEPT !.method = "playwright"]
                ELSE NoArticle)

\* Variant: a static result of a single paragraph is not taken.
ScrapeSite_WantsMore(s, site, static, render) ==
    LET a == ScrapeWithRequestsAsync(s, site, static) IN
    IF a.ret = NoArticle \/ a.ret.content < 2
    THEN ScrapeWithPlaywrightAsync(a, site, render)
    ELSE a

\* scrape_zeenews(), scrape_thehindu(), scrape_freepressjournal(),
\* scrape_businessstandard()
ScrapeSite(s, site, static, render) ==
    LET a == ScrapeWithRequestsAsync(s, site, static) IN
    IF a.ret = NoArticle
    THEN ScrapeWithPlaywrightAsync(a, site, render)
    ELSE a

\* What a call of a per-site scraper is given: the site, what the GET
\* does and the page it returns, whether the browser works and the page
\* it renders.
SiteInputs ==
    [ site : Sites,
      static : [status : {"ok", "error_status", "neterr"}, page : SitePages],
      render : [ok : BOOLEAN, page : SitePages] ]

-----------------------------------------------------------------------------
(* Reading a trace *)

Count(tr, e) == Cardinality({i \in 1..Len(tr) : tr[i].e = e})

Has(tr, e) == \E i \in 1..Len(tr) : tr[i].e = e

First(tr, e) == CHOOSE i \in 1..Len(tr) : tr[i].e = e /\ \A j \in 1..(i - 1) : tr[j].e # e

\* The responses the call consumed, padded with 200s it never looked at.
Consumed(tr, resps) ==
    [i \in DOMAIN resps |-> IF i <= Count(tr, "attempt") THEN resps[i] ELSE "s200"]

-----------------------------------------------------------------------------
(* State machine *)

Init ==
    /\ now = Epoch
    /\ cfg \in Configs
    /\ daemon \in DaemonModes
    /\ probe \in ProbeResults
    /\ session = FALSE
    /\ session_active = FALSE
    /\ current_ip = "none"
    /\ last_ip_change_time = None
    /\ last_ip_check_ts = 0
    /\ controller = "none"
    /\ alive = FALSE
    /\ last_newnym_ts = 0
    /\ lastOp = "idle"
    /\ inp = << >>
    /\ ret = FALSE
    /\ exc = "none"
    /\ trace = << >>
    /\ last_signal_at = None
    /\ nymLog = << >>
    /\ proc = ProcIdle
    /\ threads = ThreadsIdle
    /\ pre = << >>

\* The fields after a call that took the record Cur to r.
Apply(op, r, resps) ==
    /\ lastOp = "idle"
    /\ r.now <= MaxTime
    /\ now' = r.now
    /\ session' = r.session
    /\ session_active' = r.session_active
    /\ current_ip' = r.current_ip
    /\ last_ip_change_time' = r.last_ip_change_time
    /\ last_ip_check_ts' = r.last_ip_check_ts
    /\ controller' = r.controller
    /\ alive' = r.alive
    /\ last_newnym_ts' = r.last_newnym_ts
    /\ last_signal_at' = r.last_signal_at
    /\ lastOp' = op
    /\ pre' = Cur
    /\ inp' = resps
    /\ ret' = r.ret
    /\ exc' = r.exc
    /\ trace' = r.trace
    /\ UNCHANGED <<cfg, daemon, probe, proc, threads>>

DoStart ==
    /\ Apply("start", StartSession(Cur), << >>)
    /\ UNCHANGED nymLog

DoRequest ==
    \E resps \in [1..cfg.max_retries_per_request -> Responses] :
        LET r == Request(Cur, resps) IN
        /\ Apply("request", r, Consumed(r.trace, resps))
        /\ UNCHANGED nymLog

\* A direct call of renew_ip(), with its default initial=False.
DoRenew ==
    /\ Apply("renew", RenewIp(Cur, FALSE), << >>)
    /\ UNCHANGED nymLog

DoLogStatus ==
    /\ Apply("log", LogIpStatus(Cur), << >>)
    /\ UNCHANGED nymLog

DoClose ==
    /\ Apply("close", Close(Cur), << >>)
    /\ UNCHANGED nymLog

\* A direct call of TorController.newnym; the first calls that return are logged.
DoNewnym ==
    \E wait_for_build \in BOOLEAN :
        LET r == Newnym(Cur, wait_for_build) IN
        /\ Apply("newnym", r, << >>)
        /\ nymLog' = IF r.exc = "none" /\ Len(nymLog) < MaxNymLog
                     THEN Append(nymLog, [t |-> now, rotated |-> r.ret])
                     ELSE nymLog

DoEnsureConnected ==
    /\ Apply("ensure_connected", EnsureConnected(Cur), << >>)
    /\ UNCHANGED nymLog

\* The caller has looked at the outcome of the call; its record is dropped.
Forget ==
    /\ lastOp \notin {"idle", "requesting"}
    /\ lastOp' = "idle"
    /\ pre' = << >>
    /\ inp' = << >>
    /\ ret' = FALSE
    /\ exc' = "none"
    /\ trace' = << >>
    /\ UNCHANGED <<now, cfg, daemon, probe, session, session_active, current_ip,
                   last_ip_change_time, last_ip_check_ts, controller, alive,
                   last_newnym_ts, last_signal_at, nymLog, proc, threads>>

(* Environment *)

EnvVars == <<cfg, session, session_active, current_ip, last_ip_change_time,
             last_ip_check_ts, last_newnym_ts, lastOp, pre, inp, ret, exc,
             trace, last_signal_at, nymLog, proc, threads>>

Tick ==
    /\ lastOp = "idle"
    /\ now < MaxTime
    /\ now' = now + 1
    /\ UNCHANGED <<daemon, probe, controller, alive>>
    /\ UNCHANGED EnvVars

SetDaemon ==
    \E d \in DaemonModes \ {daemon} :
        /\ lastOp = "idle"
        /\ daemon' = d
        /\ UNCHANGED <<now, probe, controller, alive>>
        /\ UNCHANGED EnvVars

SetProbe ==
    \E p \in ProbeResults \ {probe} :
        /\ lastOp = "idle"
        /\ probe' = p
        /\ UNCHANGED <<now, daemon, controller, alive>>
        /\ UNCHANGED EnvVars

\* The control connection drops: is_alive() turns false.
DropConnection ==
    /\ lastOp = "idle"
    /\ controller # "none"
    /\ alive
    /\ alive' = FALSE
    /\ UNCHANGED <<now, daemon, probe, controller>>
    /\ UNCHANGED EnvVars

(* Scraping *)

Thresholds == {1, MaxMinWords, DefaultMinWords}

NoBody == [status_code |-> 0, text |-> << >>]

NoRender == [ok |-> FALSE, html |-> << >>]

\* The responses request_func returns: a 200 with any page or none, or
\* another status raise_for_status() accepts, with a body or without.
Bodies ==
    [status_code : {200}, text : Html]
    \cup [status_code : {203},
          text : {<< >>, << [text |-> "tail", words |-> 1, chars |-> MinParagraphChars] >>}]

\* What the headless browser gives: an exception, or the rendered page.
Renders == {NoRender} \cup [ok : {TRUE}, html : Html]

\* The inputs of a scrape_article() call as the call used them.
ScrapeInputs(out, min_words, resps, body, render) ==
    [ min_words_requests |-> min_words,
      resps  |-> resps,
      body   |-> body,
      render |-> IF Has(out.trace, "rendered_fetch") THEN render ELSE NoRender ]

\* What a scrape_article() call of a scraper constructed with
\* min_words_requests = m and a stand-in request_func is given: the stand-in
\* raises `resps` or, when that is "none", returns `body`.
PolicyInputs(m) ==
    { [min_words_requests |-> m, resps |-> "none", body |-> b, render |-> g] :
          b \in Bodies, g \in Renders }
    \cup { [min_words_requests |-> m, resps |-> e, body |-> NoBody, render |-> g] :
          e \in ExceptionClasses, g \in Renders }

\* scrape_article() of a scraper whose request_func is the stand-in.
DoScrapeStub ==
    /\ DOMAIN inp # {}
    /\ LET r == IF inp.resps = "none" THEN Return(Cur, TRUE) ELSE Raise(Cur, inp.resps)
           out == ScrapeArticle(r, inp.body, inp.render, inp.min_words_requests)
       IN  /\ Apply("scrape", out,
                    ScrapeInputs(out, inp.min_words_requests, inp.resps,
                                 inp.body, inp.render))
           /\ UNCHANGED nymLog

\* The pages the session-backed scraper is offered: none, one below the
\* default threshold and one above it.
ScrapeBodies ==
    [ status_code : {200},
      text : { << >>,
               << [text |-> "tail", words |-> 1, chars |-> MinParagraphChars] >>,
               << [text |-> "full", words |-> DefaultMinWords + MinParagraphChars,
                   chars |-> 20 * MinParagraphChars] >> } ]

\* What the headless browser gives it: an exception, an empty page or a
\* page of one word.
ScrapeRenders ==
    {NoRender}
    \cup [ ok : {TRUE},
           html : { << >>,
                    << [text |-> "aside", words |-> 1,
                        chars |-> MinParagraphChars + 1] >> } ]

\* scrape_article() of PRNewswireScraper(request_func=tor_session_manager.request).
DoScrape ==
    \E min_words \in {DefaultMinWords},
       resps \in [1..cfg.max_retries_per_request -> Responses] :
        \E r \in {Request(Cur, resps)} :
        \E body \in ScrapeBodies, render \in ScrapeRenders :
            LET out == ScrapeArticle(r, body, render, min_words)
            IN  /\ Apply("scrape", out,
                     ScrapeInputs(out, min_words, Consumed(r.trace, resps), body, render))
                /\ UNCHANGED nymLog

(* request() as a process: lastOp is "requesting" while it is in progress. *)

\* The fields and history after a step that gives the record and process nx.
Advance(nx, resps) ==
    /\ now' = nx.s.now
    /\ session' = nx.s.session
    /\ session_active' = nx.s.session_active
    /\ current_ip' = nx.s.current_ip
    /\ last_ip_change_time' = nx.s.last_ip_change_time
    /\ last_ip_check_ts' = nx.s.last_ip_check_ts
    /\ controller' = nx.s.controller
    /\ alive' = nx.s.alive
    /\ last_newnym_ts' = nx.s.last_newnym_ts
    /\ last_signal_at' = nx.s.last_signal_at
    /\ trace' = nx.s.trace
    /\ exc' = nx.s.exc
    /\ ret' = nx.s.ret
    /\ lastOp' = IF nx.p.pc = "done" THEN "request" ELSE "requesting"
    /\ proc' = IF nx.p.pc = "done" THEN ProcIdle ELSE nx.p
    /\ inp' = IF nx.p.pc = "done" THEN Consumed(nx.s.trace, resps) ELSE resps
    /\ UNCHANGED <<cfg, daemon, probe, nymLog, threads>>

ReqEnter ==
    \E resps \in [1..cfg.max_retries_per_request -> Responses] :
        /\ lastOp = "idle"
        /\ now <= MaxTime
        /\ pre' = Cur
        /\ Advance(At(Emit(Cur, "request", 0), ProcIdle, "ensure_started"), resps)

ReqStep ==
    /\ lastOp = "requesting"
    /\ pre' = pre
    /\ \E s \in {[Cur EXCEPT !.trace = trace, !.ret = ret]} :
           \E nx \in {Step(s, proc, inp)} : Advance(nx, inp)

(* Two threads calling the one manager the module exports.  Each runs     *)
(* request() by the steps above or close() in two.  The manager holds no    *)
(* lock, so the steps of the two interleave freely.  The trace keeps, in    *)
(* the order they happen and with the thread they belong to, the events    *)
(* in Logged.                                                               *)

Threads == {1, 2}

Other(th) == 3 - th

Logged == {"signal", "no_client", "close_client"}

\* close() lines 273-276
CloseClient(s) ==
    IF s.session THEN Emit([s EXCEPT !.session = FALSE], "close_client", 0) ELSE s

\* close() lines 278-283
CloseControl(s) ==
    LET b == IF s.controller # "none"
             THEN Emit([s EXCEPT !.controller = "none", !.alive = FALSE],
                       "close_control", 0)
             ELSE s
    IN  [b EXCEPT !.session_active = FALSE]

CloseStep(s, p) ==
    IF p.pc = "close_client"
    THEN At(CloseClient(s), p, "close_control")
    ELSE Leave(CloseControl(s), p)

\* The events of one step that the trace keeps.
LogOf(tr, th) ==
    LET kept == SelectSeq(tr, LAMBDA ev : ev.e \in Logged)
    IN  [i \in 1..Len(kept) |->
            [e |-> kept[i].e, t |-> kept[i].t, k |-> kept[i].k, th |-> th]]

\* What the site answers is settled when the attempt is made.
ThreadStep_Inputs == [1..cfg.max_retries_per_request -> ThreadResponses]

\* The fields after a step of thread th, and the thread's own record.
ThreadAdvance(th, nx, op) ==
    /\ now' = nx.s.now
    /\ session' = nx.s.session
    /\ session_active' = nx.s.session_active
    /\ current_ip' = nx.s.current_ip
    /\ last_ip_change_time' = nx.s.last_ip_change_time
    /\ last_ip_check_ts' = nx.s.last_ip_check_ts
    /\ controller' = nx.s.controller
    /\ alive' = nx.s.alive
    /\ last_newnym_ts' = nx.s.last_newnym_ts
    /\ last_signal_at' = nx.s.last_signal_at
    /\ trace' = trace \o LogOf(nx.s.trace, th)
    /\ threads' = [threads EXCEPT
                      !.call[th] = [@ EXCEPT
                          !.op = IF nx.p.pc = "done" THEN op ELSE @,
                          !.proc = IF nx.p.pc = "done" THEN ProcIdle ELSE nx.p,
                          !.ret = nx.s.ret,
                          !.exc = nx.s.exc]]
    /\ UNCHANGED <<cfg, daemon, probe, nymLog, lastOp, pre, inp, ret, exc, proc>>

\* Thread th has entered a call; nothing of the manager has run yet.
ThreadEnter(th, op, pc) ==
    /\ threads.call[th].op = "idle"
    /\ now <= MaxTime
    /\ threads' = [threads EXCEPT
                      !.call[th] = [@ EXCEPT !.op = op,
                                             !.proc = [ProcIdle EXCEPT !.pc = pc]],
                      !.overlapped = @ \/ threads.call[Other(th)].op \in InProgress]
    /\ UNCHANGED <<now, cfg, daemon, probe, session, session_active, current_ip,
                   last_ip_change_time, last_ip_check_ts, controller, alive,
                   last_newnym_ts, lastOp, pre, inp, ret, exc, trace,
                   last_signal_at, nymLog, proc>>

ThreadRequest ==
    \E th \in Threads : ThreadEnter(th, "requesting", "ensure_started")

\* The second thread is the one that shuts the manager down.
ThreadClose == ThreadEnter(2, "closing", "close_client")

ThreadStep ==
    \E th \in Threads :
        /\ threads.call[th].op \in InProgress
        /\ \E s \in {[Cur EXCEPT !.ret = threads.call[th].ret]} :
               IF threads.call[th].op = "closing"
               THEN ThreadAdvance(th, CloseStep(s, threads.call[th].proc), "close")
               ELSE \E resps \in ThreadStep_Inputs :
                        \E nx \in {Step(s, threads.call[th].proc, resps)} :
                            ThreadAdvance(th, nx, "request")

\* Both callers have looked at the outcomes of their calls.
ThreadsForget ==
    /\ \A th \in Threads : threads.call[th].op \notin InProgress
    /\ \E th \in Threads : threads.call[th].op # "idle"
    /\ threads' = [ThreadsIdle EXCEPT !.overlapped = threads.overlapped]
    /\ trace' = << >>
    /\ UNCHANGED <<now, cfg, daemon, probe, session, session_active, current_ip,
                   last_ip_change_time, last_ip_check_ts, controller, alive,
                   last_newnym_ts, lastOp, pre, inp, ret, exc,
                   last_signal_at, nymLog, proc>>

\* Time passes between the calls.
ThreadsTick ==
    /\ \A th \in Threads : threads.call[th].op = "idle"
    /\ Tick

Next ==
    \/ DoStart
    \/ DoRequest
    \/ DoRenew
    \/ DoLogStatus
    \/ DoClose
    \/ Forget
    \/ Tick
    \/ SetDaemon
    \/ SetProbe
    \/ DropConnection

Spec == Init /\ [][Next]_vars

\* The controller used on its own.
NextCtl ==
    \/ DoNewnym
    \/ DoEnsureConnected
    \/ Forget
    \/ Tick
    \/ SetDaemon
    \/ DropConnection

SpecCtl == Init /\ [][NextCtl]_vars

\* request() step by step.  Every HTTP call, control-channel call and sleep
\* returns, so a call in progress takes its next step.
NextLoop ==
    \/ ReqEnter
    \/ ReqStep
    \/ Forget
    \/ Tick

SpecLoop == Init /\ [][NextLoop]_vars /\ WF_vars(ReqStep)

\* The escalation policy on its own: a scraper with a stand-in request_func
\* and the inputs of its one call.
InitPolicy ==
    /\ now = Epoch
    /\ cfg \in { c \in Configs : /\ c.max_retries_per_request = 0
                                 /\ c.TOR_NEWNYM_BUILD_WAIT = 0 }
    /\ daemon = "up"
    /\ probe = "fail"
    /\ session = FALSE
    /\ session_active = FALSE
    /\ current_ip = "none"
    /\ last_ip_change_time = None
    /\ last_ip_check_ts = 0
    /\ controller = "none"
    /\ alive = FALSE
    /\ last_newnym_ts = 0
    /\ lastOp = "idle"
    /\ \E m \in Thresholds : inp \in PolicyInputs(m)
    /\ ret = FALSE
    /\ exc = "none"
    /\ trace = << >>
    /\ last_signal_at = None
    /\ nymLog = << >>
    /\ proc = ProcIdle
    /\ threads = ThreadsIdle
    /\ pre = << >>

NextPolicy ==
    \/ DoScrapeStub
    \/ Forget

SpecPolicy == InitPolicy /\ [][NextPolicy]_vars

\* time.time() when the scraper's session manager is constructed: as Epoch,
\* beyond the intervals compared against the initial timestamps 0.0.
ScrapeEpoch ==
    IF MaxCooldown > MaxIpCheckCooldown THEN MaxCooldown ELSE MaxIpCheckCooldown

\* The scraper on the session manager, with the default number of retries
\* or none.
InitScrape ==
    /\ now = ScrapeEpoch
    /\ cfg \in { [c EXCEPT !.max_retries_per_request = n] :
                    c \in Configs, n \in {0, DefaultMaxRetries} }
    /\ daemon \in DaemonModes
    /\ probe = "ipA"
    /\ session = FALSE
    /\ session_active = FALSE
    /\ current_ip = "none"
    /\ last_ip_change_time = None
    /\ last_ip_check_ts = 0
    /\ controller = "none"
    /\ alive = FALSE
    /\ last_newnym_ts = 0
    /\ lastOp = "idle"
    /\ inp = << >>
    /\ ret = FALSE
    /\ exc = "none"
    /\ trace = << >>
    /\ last_signal_at = None
    /\ nymLog = << >>
    /\ proc = ProcIdle
    /\ threads = ThreadsIdle
    /\ pre = << >>

NextScrape ==
    \/ DoScrape
    \/ Forget
    \/ Tick

SpecScrape == InitScrape /\ [][NextScrape]_vars

\* request() with the default number of retries, and with a backoff factor
\* or none.
InitRetry ==
    /\ now = ScrapeEpoch
    /\ cfg \in { [c EXCEPT !.max_retries_per_request = DefaultMaxRetries,
                            !.backoff_factor = f] :
                    c \in Configs, f \in 0..MaxBackoff }
    /\ daemon \in DaemonModes
    /\ probe = "ipA"
    /\ session = FALSE
    /\ session_active = FALSE
    /\ current_ip = "none"
    /\ last_ip_change_time = None
    /\ last_ip_check_ts = 0
    /\ controller = "none"
    /\ alive = FALSE
    /\ last_newnym_ts = 0
    /\ lastOp = "idle"
    /\ inp = << >>
    /\ ret = FALSE
    /\ exc = "none"
    /\ trace = << >>
    /\ last_signal_at = None
    /\ nymLog = << >>
    /\ proc = ProcIdle
    /\ threads = ThreadsIdle
    /\ pre = << >>

NextRetry ==
    \/ DoRequest
    \/ Forget
    \/ Tick

SpecRetry == InitRetry /\ [][NextRetry]_vars

\* Two threads on the one manager, with the daemon up and the retry budget
\* that leaves room for one retry.
InitThreads ==
    /\ now = Epoch
    /\ cfg \in { c \in Configs : /\ c.max_retries_per_request = 2
                                  /\ c.TOR_NEWNYM_BUILD_WAIT = 0 }
    /\ daemon = "up"
    /\ probe = "ipA"
    /\ session = FALSE
    /\ session_active = FALSE
    /\ current_ip = "none"
    /\ last_ip_change_time = None
    /\ last_ip_check_ts = 0
    /\ controller = "none"
    /\ alive = FALSE
    /\ last_newnym_ts = 0
    /\ lastOp = "idle"
    /\ inp = << >>
    /\ ret = FALSE
    /\ exc = "none"
    /\ trace = << >>
    /\ last_signal_at = None
    /\ nymLog = << >>
    /\ proc = ProcIdle
    /\ threads = ThreadsIdle
    /\ pre = << >>

NextThreads ==
    \/ ThreadRequest
    \/ ThreadClose
    \/ ThreadStep
    \/ ThreadsForget
    \/ ThreadsTick

SpecThreads == InitThreads /\ [][NextThreads]_vars

\* The per-site scrapers, each call on inputs drawn at the start.
InitSite ==
    /\ now = Epoch
    /\ cfg \in { c \in Configs : /\ c.max_retries_per_request = 0
                                 /\ c.TOR_NEWNYM_BUILD_WAIT = 0 }
    /\ daemon = "up"
    /\ probe = "fail"
    /\ session = FALSE
    /\ session_active = FALSE
    /\ current_ip = "none"
    /\ last_ip_change_time = None
    /\ last_ip_check_ts = 0
    /\ controller = "none"
    /\ alive = FALSE
    /\ last_newnym_ts = 0
    /\ lastOp = "idle"
    /\ inp \in SiteInputs
    /\ ret = FALSE
    /\ exc = "none"
    /\ trace = << >>
    /\ last_signal_at = None
    /\ nymLog = << >>
    /\ proc = ProcIdle
    /\ threads = ThreadsIdle
    /\ pre = << >>

DoScrapeSite ==
    /\ DOMAIN inp # {}
    /\ Apply("scrape_site", ScrapeSite(Cur, inp.site, inp.static, inp.render), inp)
    /\ UNCHANGED nymLog

NextSite ==
    \/ DoScrapeSite
    \/ Forget

SpecSite == InitSite /\ [][NextSite]_vars

-----------------------------------------------------------------------------
(* Properties *)

RotationErrors == {"SocketError", "AuthenticationFailure", "ControllerError"}

Backoffs(tr) == SelectSeq(tr, LAMBDA ev : ev.e = "backoff")

\* C1: when every HTTP attempt of a request() answers 429, the call raises
\* after exactly max_retries_per_request attempts and one backoff sleep fewer,
\* for every max_retries_per_request >= 1.
C1_Exhausts429 ==
    ( /\ lastOp = "request"
      /\ cfg.max_retries_per_request >= 1
      /\ Count(trace, "attempt") >= 1
      /\ Count(trace, "blocked") = Count(trace, "attempt") )
    => /\ exc # "none"
       /\ Count(trace, "attempt") = cfg.max_retries_per_request
       /\ Count(trace, "backoff") = cfg.max_retries_per_request - 1

PrevSignalAt(tr, i, p) ==
    LET earlier == {j \in 1..(i - 1) : tr[j].e = "signal"} IN
    IF earlier = {} THEN p.last_signal_at
    ELSE tr[CHOOSE j \in earlier : \A h \in earlier : h <= j].t

\* C3: a rotation signal goes out only when the cooldown has elapsed since
\* last_newnym_ts, so two signals sent are never closer than the cooldown.
C3_SignalsRespectCooldown ==
    lastOp # "idle" =>
        \A i \in 1..Len(trace) :
            trace[i].e = "signal" =>
                /\ trace[i].k >= cfg.TOR_NEWNYM_COOLDOWN
                /\ \/ PrevSignalAt(trace, i, pre) = None
                   \/ trace[i].t - PrevSignalAt(trace, i, pre) >= cfg.TOR_NEWNYM_COOLDOWN

C3_Witness ==
    /\ lastOp = "request"
    /\ Has(trace, "skipped")
    /\ \E i \in 1..Len(trace) :
          /\ trace[i].e = "signal"
          /\ PrevSignalAt(trace, i, pre) # None
          /\ trace[i].t - PrevSignalAt(trace, i, pre) = cfg.TOR_NEWNYM_COOLDOWN

\* C4: on an Active session request() makes a proactive rotation attempt iff
\* now - last_ip_change_time > ip_renew_interval when it is called, and then
\* exactly one, before the first HTTP attempt.
RenewalsBeforeFirstAttempt(tr) ==
    LET stop == IF Has(tr, "attempt") THEN First(tr, "attempt") ELSE Len(tr) + 1
    IN  Cardinality({i \in 1..(stop - 1) : tr[i].e = "renew_ip"})

ProactiveDue(p) ==
    /\ p.last_ip_change_time # None
    /\ p.now - p.last_ip_change_time > cfg.ip_renew_interval

C4_ProactiveRotation ==
    (lastOp = "request" /\ pre.session_active)
    => /\ Has(trace, "time_rotate") <=> ProactiveDue(pre)
       /\ RenewalsBeforeFirstAttempt(trace) = (IF ProactiveDue(pre) THEN 1 ELSE 0)

C4_Witness ==
    /\ lastOp = "request"
    /\ pre.session_active
    /\ Has(trace, "time_rotate")
    /\ Has(trace, "attempt")
    /\ RenewalsBeforeFirstAttempt(trace) = 1

\* C5 as stated: after any completed operation the HTTP client exists iff the
\* session is Active.
C5_ClientIffActive == session <=> session_active

\* C5 amended: after any completed operation, an Active session has an HTTP
\* client.
C5_ActiveHasClient == session_active => session

C5_Witness ==
    /\ lastOp = "start"
    /\ ret
    /\ session_active
    /\ session

\* C6: every HTTP attempt of request() is issued on an Active session; after
\* a failed auto-start no attempt is issued.  (session_active does not
\* change once the retry loop has begun.)
C6_AttemptsOnlyWhenActive ==
    (lastOp = "request" /\ Has(trace, "attempt")) => session_active

\* C7: when a step of start() fails (connect, authenticate, or the initial
\* rotation), start() returns false, raises nothing, and the session is not
\* Active afterwards.
StepFailed(tr) ==
    \/ Has(tr, "connect_failed")
    \/ Has(tr, "auth_failed")
    \/ Has(tr, "signal_rejected")

C7_FailedStart ==
    (lastOp = "start" /\ StepFailed(trace))
    => /\ ret = FALSE
       /\ exc = "none"
       /\ ~session_active

C7_Witness ==
    /\ lastOp = "start"
    /\ Has(trace, "signal_rejected")
    /\ pre.session_active
    /\ ret = FALSE

\* C8 as stated: every start() that returns true sent a rotation signal
\* during the call.
C8_StartAlwaysSignals ==
    (lastOp = "start" /\ ret) => Has(trace, "signal")

\* C8 amended: every start() that returns true made exactly one rotation
\* request during the call and set last_ip_change_time; the signal itself
\* went out iff the cooldown had elapsed since last_newnym_ts.
C8_StartRequestsRotation ==
    (lastOp = "start" /\ ret)
    => /\ Count(trace, "newnym") = 1
       /\ Has(trace, "signal") <=>
             (pre.now - pre.last_newnym_ts >= cfg.TOR_NEWNYM_COOLDOWN)
       /\ Has(trace, "skipped") <=> ~Has(trace, "signal")
       /\ last_ip_change_time # None

C8_Witness ==
    /\ lastOp = "start"
    /\ ret
    /\ Has(trace, "skipped")
    /\ session_active

\* C9: after close() the HTTP client and the control handle are released and
\* the session is not Active; close() on a released session raises nothing
\* and changes no field.
Released ==
    /\ ~session
    /\ controller = "none"
    /\ ~session_active

C9_CloseIdempotent ==
    /\ [](lastOp = "close" => (Released /\ exc = "none"))
    /\ [][ (lastOp' = "close" /\ Released)
           => /\ exc' = "none"
              /\ UNCHANGED <<now, session, session_active, current_ip,
                             last_ip_change_time, last_ip_check_ts,
                             controller, alive, last_newnym_ts>> ]_vars

C9_Witness ==
    /\ lastOp = "close"
    /\ ~pre.session
    /\ pre.controller = "none"
    /\ pre.last_newnym_ts > 0

\* C10: on every attempt a 403 or 429 response is handled as a transport
\* failure on that attempt would be: as many rotation requests, the same
\* backoff sleeps, the same propagation on the last attempt.
C10_StatusLikeTransport ==
    lastOp = "request" =>
        \A k \in 1..Count(trace, "attempt") :
            inp[k] = "blocked" =>
                LET alt == Request(pre, [inp EXCEPT ![k] = "neterr"]) IN
                /\ Count(alt.trace, "renew_ip") = Count(trace, "renew_ip")
                /\ Backoffs(alt.trace) = Backoffs(trace)
                /\ (alt.exc # "none") <=> (exc # "none")

\* The position in a trace of HTTP attempt number k.
AttemptAt(tr, k) == CHOOSE i \in 1..Len(tr) : tr[i].e = "attempt" /\ tr[i].k = k

\* C11: a response whose status is neither 403 nor 429 ends the call on that
\* attempt: an error status is raised to the caller with no rotation request
\* after it, any other status is returned.
C11_OtherStatusEndsCall ==
    lastOp = "request" =>
        \A k \in 1..Count(trace, "attempt") :
            /\ inp[k] = "s500" =>
                  /\ k = Count(trace, "attempt")
                  /\ exc = "HTTPError"
                  /\ \A i \in (AttemptAt(trace, k) + 1)..Len(trace) :
                        trace[i].e # "renew_ip"
            /\ inp[k] = "s200" =>
                  /\ k = Count(trace, "attempt")
                  /\ exc = "none"
                  /\ ret

\* The call recorded in lastOp, made again from the fields s.
Rerun(op, s, resps) ==
    CASE op = "start"   -> StartSession(s)
      [] op = "request" -> Request(s, resps)
      [] op = "renew"   -> RenewIp(s, FALSE)
      [] op = "log"     -> LogIpStatus(s)
      [] op = "close"   -> Close(s)

\* The rotation requests, HTTP attempts and backoff sleeps of a call, in order.
Decisions(tr) ==
    LET d == SelectSeq(tr, LAMBDA ev : ev.e \in {"renew_ip", "attempt", "backoff"})
    IN  [i \in 1..Len(d) |-> <<d[i].e, d[i].k>>]

\* C12: whatever the exit-address probe answers during a call (an address,
\* another address, nothing), last_ip_change_time after the call and the
\* rotation requests, HTTP attempts and backoff sleeps of the call are the
\* same.
C12_ProbeAdvisory ==
    lastOp \in {"start", "request", "renew", "log", "close"} =>
        \A p \in ProbeResults :
            LET alt == Rerun(lastOp, [pre EXCEPT !.probe = p], inp) IN
            /\ alt.last_ip_change_time = last_ip_change_time
            /\ Decisions(alt.trace) = Decisions(trace)

\* What a call does on the control channel.
DaemonEvents ==
    {"connect", "connect_failed", "auth_failed", "signal", "signal_rejected"}

\* C19: a newnym() called before the cooldown has elapsed returns False
\* without touching the control channel: no connect, authenticate or signal,
\* and no exception whatever the daemon does.
C19_SkipWithoutDaemon ==
    ( /\ lastOp = "newnym"
      /\ pre.now - pre.last_newnym_ts < cfg.TOR_NEWNYM_COOLDOWN )
    => /\ exc = "none"
       /\ ret = FALSE
       /\ \A i \in 1..Len(trace) : trace[i].e \notin DaemonEvents

\* C20: a request() in progress ends, by returning a response or by raising
\* an exception, and has made at most max_retries_per_request HTTP attempts and fewer backoff
\* sleeps than that (none when no attempt is allowed).
C20_RequestEnds ==
    /\ (lastOp = "requesting") ~> (lastOp = "request")
    /\ [](lastOp \in {"requesting", "request"} =>
            /\ Count(trace, "attempt") <= cfg.max_retries_per_request
            /\ \/ Count(trace, "backoff") = 0
               \/ Count(trace, "backoff") <= cfg.max_retries_per_request - 1)
    /\ [](lastOp = "request" => (exc # "none" \/ Has(trace, "response")))

C20_Witness ==
    /\ lastOp = "request"
    /\ cfg.max_retries_per_request >= 2
    /\ Count(trace, "attempt") = cfg.max_retries_per_request
    /\ Count(trace, "backoff") = cfg.max_retries_per_request - 1
    /\ exc = "HTTPError"

\* The step-by-step request() ends as the whole call does.
LoopAgreesWithRequest ==
    lastOp = "request" =>
        LET r == Request(pre, inp) IN
        /\ r.trace = trace
        /\ r.exc = exc
        /\ (exc = "none" => r.ret = ret)
        /\ r.now = now
        /\ r.last_ip_change_time = last_ip_change_time
        /\ r.last_newnym_ts = last_newnym_ts
        /\ r.session_active = session_active

(* The escalation policy.  A scrape_article() call is recorded with        *)
(* lastOp = "scrape"; inp holds what it was given.                           *)

\* What the static fetch yielded, and the content extracted from it.
StaticHtml ==
    IF Has(trace, "static_fetched") /\ inp.body.status_code = 200
    THEN inp.body.text ELSE << >>

StaticContent == ExtractContent(StaticHtml)

\* The content extracted from what the rendered fetch yielded.
RenderedContent ==
    IF inp.render.ok THEN ExtractContent(inp.render.html) ELSE << >>

Escalated == Has(trace, "rendered_fetch")

\* C13: a static extraction of at least min_words_requests words is returned
\* without the rendered fetch, one of fewer words always leads to the
\* rendered fetch; with the default 80, 80 words do not escalate and 79 do.
C13_EscalationBoundary ==
    lastOp = "scrape" =>
        /\ WordCount(StaticContent) >= inp.min_words_requests
              => /\ ~Escalated
                 /\ exc = "none"
                 /\ ret = StaticContent
        /\ WordCount(StaticContent) < inp.min_words_requests => Escalated
        /\ inp.min_words_requests = DefaultMinWords =>
              /\ WordCount(StaticContent) = DefaultMinWords => ~Escalated
              /\ WordCount(StaticContent) = DefaultMinWords - 1 => Escalated

C13_Witness ==
    /\ lastOp = "scrape"
    /\ inp.min_words_requests = DefaultMinWords
    /\ WordCount(StaticContent) = DefaultMinWords
    /\ ~Escalated
    /\ ret = StaticContent

\* C14: after the rendered fetch the rendered content is returned iff it has
\* strictly more words than the static content; on equal counts the static
\* content is returned.
C14_StrictlyMoreWordsWins ==
    (lastOp = "scrape" /\ Escalated) =>
        /\ exc = "none"
        /\ Has(trace, "return_rendered")
              <=> WordCount(RenderedContent) > WordCount(StaticContent)
        /\ Has(trace, "return_static")
              <=> WordCount(RenderedContent) <= WordCount(StaticContent)
        /\ ret = IF WordCount(RenderedContent) > WordCount(StaticContent)
                 THEN RenderedContent ELSE StaticContent

C14_Witness ==
    /\ lastOp = "scrape"
    /\ Escalated
    /\ WordCount(RenderedContent) = WordCount(StaticContent)
    /\ RenderedContent # StaticContent
    /\ StaticContent # << >>
    /\ ret = StaticContent

\* C15: when the static fetch and the rendered fetch both yield empty
\* content, scrape_article() returns the empty content and raises nothing.
C15_BothEmpty ==
    (lastOp = "scrape" /\ StaticContent = << >> /\ RenderedContent = << >>)
    => /\ exc = "none"
       /\ ret = << >>

C15_Witness ==
    /\ lastOp = "scrape"
    /\ Has(trace, "static_failed")
    /\ Escalated
    /\ ~inp.render.ok
    /\ ret = << >>

C17_StaticBeatsNothing ==
    ( /\ lastOp = "scrape"
      /\ StaticContent # << >>
      /\ WordCount(StaticContent) < inp.min_words_requests
      /\ RenderedContent = << >> )
    => /\ Escalated
       /\ exc = "none"
       /\ ret = StaticContent

C17_Witness ==
    /\ lastOp = "scrape"
    /\ StaticContent # << >>
    /\ WordCount(StaticContent) < inp.min_words_requests
    /\ Escalated
    /\ ~inp.render.ok
    /\ ret = StaticContent

\* The scenario of C18: the first HTTP attempt is answered 429, the second
\* 200 with content that meets the threshold, and three attempts are allowed.
Offered429Then200 ==
    /\ lastOp = "scrape"
    /\ cfg.max_retries_per_request = DefaultMaxRetries
    /\ inp.resps[1] = "blocked"
    /\ inp.resps[2] = "s200"
    /\ inp.body.status_code = 200
    /\ WordCount(ExtractContent(inp.body.text)) >= inp.min_words_requests

SettledBefore(p) ==
    /\ p.session_active
    /\ p.controller = "authed"
    /\ p.alive
    /\ ~ProactiveDue(p)
    /\ p.now - p.last_newnym_ts >= cfg.TOR_NEWNYM_COOLDOWN

EnteredLoop(tr) == Has(tr, "attempt") \/ Has(tr, "no_client")

\* C23: no request() reaches the statement after the retry loop; every call
\* ends by returning a response or by raising from inside the loop.
C23_ExhaustedUnreachable ==
    lastOp = "request" =>
        /\ ~Has(trace, "exhausted")
        /\ \/ exc = "none" /\ Has(trace, "response")
           \/ exc # "none" /\ EnteredLoop(trace)

\* A rotation requested after HTTP attempt number 1 or later failed on the
\* control channel.
RotationFailedAfterAttempt(tr) ==
    \E i \in 1..Len(tr) :
        /\ tr[i].e \in {"connect_failed", "auth_failed", "signal_rejected"}
        /\ \E j \in 1..(i - 1) : tr[j].e = "attempt"

\* C24: when the rotation requested after a failed attempt itself fails, the
\* retry loop goes on: the call ends with a response or with the failure of
\* the HTTP call after max_retries_per_request attempts, never with the
\* rotation failure.
C24_RotationBestEffort ==
    (lastOp = "request" /\ RotationFailedAfterAttempt(trace))
    => /\ exc \notin RotationErrors
       /\ \/ Has(trace, "response")
          \/ Count(trace, "attempt") = cfg.max_retries_per_request

\* Some event e lies strictly between positions a and b of the trace.
Between(tr, a, b, e) == \E i \in (a + 1)..(b - 1) : tr[i].e = e

\* C25: within one request() every attempt k >= 2 comes after attempt k-1
\* failed, a rotation request made after that failure and then the backoff
\* sleep of attempt k-1; after the last attempt, when it failed, a rotation
\* is requested, no sleep follows and the call raises.
C25_AttemptRotateSleepAttempt ==
    lastOp = "request" =>
        LET n == Count(trace, "attempt") IN
        /\ \A k \in 2..n :
              /\ inp[k - 1] # "s200"
              /\ \E i \in (AttemptAt(trace, k - 1) + 1)..(AttemptAt(trace, k) - 1) :
                    /\ trace[i].e = "renew_ip"
                    /\ \E j \in (i + 1)..(AttemptAt(trace, k) - 1) :
                          trace[j].e = "backoff" /\ trace[j].k = k - 1
        /\ (n >= 1 /\ inp[n] # "s200") =>
              /\ Between(trace, AttemptAt(trace, n), Len(trace) + 1, "renew_ip")
              /\ ~Between(trace, AttemptAt(trace, n), Len(trace) + 1, "backoff")
              /\ exc # "none"

C25_Witness ==
    /\ lastOp = "request"
    /\ Count(trace, "attempt") = 2
    /\ inp[1] = "blocked"
    /\ inp[2] = "neterr"
    /\ exc = "ConnectionError"
    /\ Count(trace, "backoff") = 1
    /\ Between(trace, AttemptAt(trace, 2), Len(trace) + 1, "signal")

\* How long each backoff sleep of a call lasted, in order: the clock when the
\* sleep was over less the clock at the event before it.
SleepLengths(tr) ==
    LET at == SelectSeq([i \in 1..Len(tr) |-> i], LAMBDA i : tr[i].e = "backoff")
    IN  [n \in 1..Len(at) |-> tr[at[n]].t - tr[at[n] - 1].t]

RECURSIVE SumSeq(_)
SumSeq(q) == IF q = << >> THEN 0 ELSE Head(q) + SumSeq(Tail(q))

\* A request() that used up its attempts and raised the failure of the last.
FullyExhausted ==
    /\ lastOp = "request"
    /\ Count(trace, "attempt") = cfg.max_retries_per_request
    /\ exc \in {"HTTPError", "ConnectionError"}

\* C26: the n-th backoff sleep of a request() follows failed attempt n, with
\* n < max_retries_per_request, and lasts backoff_factor * n; with a positive
\* factor the sleeps of a call are strictly increasing; a fully exhausted
\* call sleeps backoff_factor * max_retries * (max_retries - 1) / 2 in all.
C26_LinearBackoff ==
    lastOp = "request" =>
        LET d == SleepLengths(trace)
            b == Backoffs(trace)
        IN  /\ \A n \in 1..Len(d) :
                  /\ b[n].k = n
                  /\ n < cfg.max_retries_per_request
                  /\ inp[n] # "s200"
                  /\ d[n] = cfg.backoff_factor * n
            /\ cfg.backoff_factor > 0 =>
                  \A n \in 2..Len(d) : d[n - 1] < d[n]
            /\ FullyExhausted =>
                  2 * SumSeq(d) = cfg.backoff_factor * cfg.max_retries_per_request
                                     * (cfg.max_retries_per_request - 1)

C26_Witness ==
    /\ FullyExhausted
    /\ cfg.backoff_factor > 0
    /\ SleepLengths(trace) = << cfg.backoff_factor, 2 * cfg.backoff_factor >>
    /\ now - pre.now >= 3 * cfg.backoff_factor

\* The positions of the exit-address probes in a trace.
ProbesAt(tr) == {i \in 1..Len(tr) : tr[i].e = "probe"}

\* When the probe before the one at position i was started: earlier in the
\* same call, or else what _last_ip_check_ts held when the call began.
PrevProbeAt(tr, i, p) ==
    LET earlier == {j \in ProbesAt(tr) : j < i} IN
    IF earlier = {} THEN p.last_ip_check_ts
    ELSE tr[CHOOSE j \in earlier : \A h \in earlier : h <= j].t

\* C27: _last_ip_check_ts is the start of the last probe after every call,
\* whatever the probe answered, and every probe starts at least
\* _ip_check_cooldown_seconds after the probe before it.
C27_ProbesApart ==
    lastOp # "idle" =>
        /\ \A i \in ProbesAt(trace) :
              trace[i].t - PrevProbeAt(trace, i, pre) >= cfg.ip_check_cooldown
        /\ last_ip_check_ts = PrevProbeAt(trace, Len(trace) + 1, pre)

C27_Witness ==
    /\ lastOp = "request"
    /\ probe = "fail"
    /\ current_ip = "none"
    /\ pre.last_ip_check_ts > 0
    /\ pre.now - pre.last_ip_check_ts < cfg.ip_check_cooldown
    /\ \E i \in ProbesAt(trace) :
          trace[i].t - PrevProbeAt(trace, i, pre) = cfg.ip_check_cooldown

\* C30: a request() on an Active session that is not due for the proactive
\* rotation and whose first HTTP attempt is accepted makes that one attempt,
\* requests no rotation, sends no signal, does not sleep, returns the
\* response, and leaves last_newnym_ts, session_active, the client and the
\* control handle as they were.
C30_QuietSuccess ==
    ( /\ lastOp = "request"
      /\ pre.session_active
      /\ ~ProactiveDue(pre)
      /\ cfg.max_retries_per_request >= 1
      /\ inp[1] = "s200" )
    => /\ exc = "none"
       /\ ret
       /\ Count(trace, "attempt") = 1
       /\ ~Has(trace, "renew_ip")
       /\ ~Has(trace, "signal")
       /\ ~Has(trace, "backoff")
       /\ now = pre.now
       /\ last_newnym_ts = pre.last_newnym_ts
       /\ session_active
       /\ session = pre.session
       /\ controller = pre.controller
       /\ alive = pre.alive

C30_Witness ==
    /\ lastOp = "request"
    /\ pre.session_active
    /\ ~ProactiveDue(pre)
    /\ pre.now - pre.last_newnym_ts >= cfg.TOR_NEWNYM_COOLDOWN
    /\ ~pre.alive
    /\ cfg.max_retries_per_request >= 1
    /\ inp[1] = "s200"
    /\ Count(trace, "attempt") = 1
    /\ Has(trace, "probe")
    /\ ret

\* The control connection of the fields p is alive.
ConnectionAlive(p) == p.controller # "none" /\ p.alive

\* C29: ensure_connected() on a live control connection opens no connection,
\* raises nothing and changes no field, and after an ensure_connected() that
\* returned the connection is alive, so that a second call does nothing; a
\* newnym() that finds the connection dead sends a rotation signal only
\* after it has connected and authenticated again.
C29_EnsureConnectedIdempotent ==
    /\ (lastOp = "ensure_connected" /\ ConnectionAlive(pre))
       => /\ trace = << >>
          /\ exc = "none"
          /\ controller = pre.controller
          /\ alive = pre.alive
          /\ last_newnym_ts = pre.last_newnym_ts
          /\ now = pre.now
    /\ (lastOp = "ensure_connected" /\ exc = "none")
       => /\ ConnectionAlive(Cur)
          /\ EnsureConnected(Cur) = Cur
    /\ (lastOp = "newnym" /\ ~ConnectionAlive(pre))
       => \A i \in 1..Len(trace) :
             trace[i].e = "signal" =>
                /\ \E j \in 1..(i - 1) : trace[j].e = "connect"
                /\ controller = "authed"
                /\ alive

C29_Witness ==
    /\ lastOp = "newnym"
    /\ pre.controller = "authed"
    /\ ~pre.alive
    /\ Has(trace, "connect")
    /\ Has(trace, "signal")
    /\ alive

\* The fields of the session manager and of its controller.
SharedState(s) ==
    << s.session, s.session_active, s.current_ip, s.last_ip_change_time,
       s.last_ip_check_ts, s.controller, s.alive, s.last_newnym_ts >>

\* What scrape_article() records once the static fetch is over.
PolicyEvents ==
    {"static_failed", "static_fetched", "rendered_fetch", "return_rendered",
     "return_static"}

\* C28: in a scrape_article() that makes the rendered fetch, the fields of
\* the session manager and of the controller after the call are those the
\* static fetch (the request() call) left, whether the browser gave a page
\* or failed, and nothing is done on the session or the control channel
\* once the static fetch is over.
C28_RenderedLeavesSession ==
    (lastOp = "scrape" /\ Escalated) =>
        LET r == Request(pre, inp.resps) IN
        /\ SharedState(Cur) = SharedState(r)
        /\ Len(trace) > Len(r.trace)
        /\ \A i \in 1..Len(trace) :
              IF i <= Len(r.trace)
              THEN trace[i] = r.trace[i]
              ELSE trace[i].e \in PolicyEvents

C28_Witness ==
    /\ lastOp = "scrape"
    /\ Escalated
    /\ ~inp.render.ok
    /\ pre.session_active
    /\ pre.now - pre.last_newnym_ts >= cfg.TOR_NEWNYM_COOLDOWN
    /\ Has(trace, "static_fetched")
    /\ ret # << >>

-----------------------------------------------------------------------------
(* Two threads on one manager *)

\* The step sends a NEWNYM signal.
SignalSent ==
    /\ Len(trace') = Len(trace) + 1
    /\ trace'[Len(trace')].e = "signal"

\* C21 (the serial side of it): as long as no two calls on the manager have
\* ever been in progress at once, a NEWNYM signal goes out no sooner than
\* TOR_NEWNYM_COOLDOWN after the signal before it.
C21_SerialSignalsApart ==
    [][ (SignalSent /\ ~threads.overlapped' /\ last_signal_at # None)
            => now' - last_signal_at >= cfg.TOR_NEWNYM_COOLDOWN ]_vars

\* Thread th is inside the renew_ip() that _maybe_rotate_by_time() called,
\* past the cooldown check and the signal of newnym().
SignalledByTime(th) ==
    /\ threads.call[th].op = "requesting"
    /\ threads.call[th].proc.back = "rotated"
    /\ threads.call[th].proc.pc \in {"stamp", "build_wait", "renew_log"}

\* C21: two request() calls in progress have both found the session older
\* than ip_renew_interval and the cooldown elapsed, and both have sent a
\* signal, the two less than TOR_NEWNYM_COOLDOWN apart.
C21_Witness ==
    /\ \A th \in Threads : SignalledByTime(th)
    /\ \E i, j \in 1..Len(trace) :
          /\ i < j
          /\ trace[i].e = "signal" /\ trace[j].e = "signal"
          /\ trace[i].th # trace[j].th
          /\ trace[j].t - trace[i].t < cfg.TOR_NEWNYM_COOLDOWN

\* C22 (the serial side of it): as long as no two calls on the manager have
\* ever been in progress at once, no retry of request() finds the HTTP
\* client absent.
C22_SerialRetryHasClient ==
    ~threads.overlapped =>
        \A i \in 1..Len(trace) : trace[i].e = "no_client" => trace[i].k = 1

\* C22: close() on the second thread released the client while the retry
\* loop of the first was between two attempts, and the next attempt of the
\* loop was made on the absent client.
C22_Witness ==
    /\ threads.call[1].exc = "AttributeError"
    /\ \E i, j \in 1..Len(trace) :
          /\ i < j
          /\ trace[i].e = "close_client" /\ trace[i].th = 2
          /\ trace[j].e = "no_client" /\ trace[j].th = 1 /\ trace[j].k >= 2

-----------------------------------------------------------------------------
(* Fields that go together *)

\* C31: whenever session_active is true, last_ip_change_time is set, so
\* the test of _maybe_rotate_by_time() never stops at "is not None".
C31_ActiveHasChangeTime ==
    session_active => last_ip_change_time # None

\* C31: a start_session() on a manager that had never recorded a change
\* time has made the session active, with the probe giving no address.
C31_Witness ==
    /\ lastOp = "start"
    /\ ~pre.session_active
    /\ pre.last_ip_change_time = None
    /\ probe = "fail"
    /\ session_active
    /\ last_ip_change_time # None

\* C32: last_newnym_ts changes only in a newnym() that sent the signal and
\* returned True; a newnym() skipped by the cooldown, and one that raised
\* while connecting or signalling, leaves it as it was.
C32_StampOnlyWhenSignalled ==
    lastOp # "idle" =>
        /\ last_newnym_ts # pre.last_newnym_ts =>
              /\ lastOp = "newnym"
              /\ Has(trace, "signal")
              /\ exc = "none"
              /\ ret
        /\ (lastOp = "newnym" /\ (Has(trace, "skipped") \/ exc # "none")) =>
              last_newnym_ts = pre.last_newnym_ts

\* C32: a newnym() after an earlier signal was skipped by the cooldown and
\* last_newnym_ts is still the time of that signal.
C32_Witness ==
    /\ lastOp = "newnym"
    /\ pre.last_newnym_ts > 0
    /\ Has(trace, "skipped")
    /\ ~ret
    /\ exc = "none"
    /\ last_newnym_ts = pre.last_newnym_ts

\* A connect that failed in the call: the daemon was unreachable, or it
\* rejected the password.
ConnectFailed(tr) == Has(tr, "connect_failed") \/ Has(tr, "auth_failed")

\* C33: an ensure_connected() that returns leaves a connection that is
\* alive and authenticated; a call whose connect failed leaves no handle;
\* and no NEWNYM signal goes out on a connection that never authenticated.
C33_ConnectedMeansAuthenticated ==
    lastOp \in {"ensure_connected", "newnym"} =>
        /\ (lastOp = "ensure_connected" /\ exc = "none") =>
              (controller = "authed" /\ alive)
        /\ ConnectFailed(trace) => controller = "none"
        /\ ~Has(trace, "signal_rejected")

-----------------------------------------------------------------------------
(* The per-site scrapers *)

\* What the static attempt of the call had to work with.
StaticGave ==
    IF inp.static.status = "ok"
    THEN ExtractFromHtml(inp.site, inp.static.page)
    ELSE NoArticle

\* What the browser would give the call.
RenderedGave ==
    IF inp.render.ok
    THEN ExtractFromHtml(inp.site, inp.render.page)
    ELSE NoArticle

\* C34: a per-site scraper runs the rendered fetch exactly when the static
\* attempt gave no result (the GET failed, or the page lacked a title or
\* content), and only after the static attempt is over; a static result is
\* returned as it is, however short; with no result from either attempt
\* the call returns None; and the call never raises.
C34_SiteFallback ==
    lastOp = "scrape_site" =>
        /\ exc = "none"
        /\ Has(trace, "rendered_begin") <=> (StaticGave = NoArticle)
        /\ \A i \in 1..Len(trace) :
              trace[i].e = "rendered_begin" =>
                  \E j \in 1..(i - 1) : trace[j].e = "static_end"
        /\ StaticGave # NoArticle => ret = [StaticGave EXCEPT !.method = "httpx"]
        /\ (StaticGave = NoArticle /\ RenderedGave = NoArticle) => ret = NoArticle

\* C34: the page of the GET had content but no title, the browser was run
\* after the static attempt and its page gave the result.
C34_Witness ==
    /\ lastOp = "scrape_site"
    /\ inp.static.status = "ok"
    /\ SiteContent(inp.static.page) > 0
    /\ ~SiteTitle(inp.site, inp.static.page)
    /\ Has(trace, "rendered_begin")
    /\ First(trace, "static_end") < First(trace, "rendered_begin")
    /\ ret.method = "playwright"

====
